---------------------------- MODULE Spec2Model ----------------------------
(***************************************************************************)
(* A model of the dogfight simulation: the jet fighters (jets.py), the     *)
(* hit-probability model and the single exchange (utils.py), and the       *)
(* driving loops (dogfight, main).                                         *)
(*                                                                         *)
(* Units.  Python's floats are modelled by exact integers and fractions:   *)
(*   - health and damage are held in hundredths of a health point, so the  *)
(*     constructor's health=100 is 10000 and damage_per_round=5/100 is 5;  *)
(*   - lengths are held in centimetres, so wingspan/2 is 50*wingspan and   *)
(*     tan(spread)*distance is tan100(spread)*distance, tan100 being the   *)
(*     tangent in hundredths;                                              *)
(*   - both areas of the program carry the same factor 3.141; an area is   *)
(*     held as its multiple of 3.141 cm^2;                                 *)
(*   - a probability is a fraction <<num, den>> in lowest terms, 1.0 is    *)
(*     <<1, 1>>; a failed float division is the value ZeroDivisionError.   *)
(***************************************************************************)
EXTENDS Integers, Sequences, FiniteSets, TLC

VARIABLES
    fighter1,          \* the first fighter object (the only one of SpecFighter)
    fighter2,          \* the second fighter object
    pre,               \* <<fighter1, fighter2>> as they were before the last call
    call,              \* the last call: its name, its arguments, what it returned
    n_calls,           \* calls made so far (bounds the unclamped counters)
    d_12,              \* the distance handed to p_by_distance
    p_12,              \* what p_by_distance(fighter1, fighter2, d_12) returned
    p_21,              \* what p_by_distance(fighter2, fighter1, d_12) returned
    p_alt,             \* what it returned with one input changed: a spread angle
                       \* (side 1 or 2) or the distance (side 0)
    cfg,               \* the driving loop that runs, its fighters and parameters
    pc,                \* "loop" while the for loop runs, "done" after it
    distance,          \* the loop variable
    outcome,           \* the outcome the loop has logged, "none" if none
    n_exchanges,       \* rounds executed so far
    fired,             \* rounds each fighter has been asked to fire so far
    forced             \* every round so far had p = (1.0, 1.0) and draws (0.0, 0.0)

pvars == <<d_12, p_12, p_21, p_alt>>

lvars == <<cfg, pc, distance, outcome, n_exchanges, fired, forced>>

vars == <<fighter1, fighter2, pre, call, n_calls, pvars, lvars>>

---------------------------------------------------------------------------
(* Bounds of the model. *)

\* calls made on one fighter object in SpecFighter
MaxCalls == 4

\* a duration large enough to fire more rounds than any fighter carries
HugeDuration == 2000000

\* a damage larger than any health
HugeDamage == 1000000

\* calls of exchange on one pair of fighters in SpecExchange
MaxExchanges == 2

\* the random draws of hit_or_miss are the multiples of 1 / DrawDen in [0, 1)
DrawDen == 4

\* a duration of one exchange that fires more rounds than an F16 of
\* src/src/jets.py carries
LongDuration == 1300000

\* requests served by the HTTP endpoint in SpecEndpoint
MaxRequests == 2

---------------------------------------------------------------------------
(* jets.py: the fighters. *)

\* the classes of src/src/scripts/jets.py and of src/src/jets.py
ScriptsClasses == {"scripts.F16", "scripts.F18", "scripts.F22"}

JetsClasses == {"jets.F16", "jets.F18"}

\* JetFighter.__init__: the attributes of a fighter object
JetFighter(cls, name, health, cannon_ammo, fire_rate, wingspan, damage_per_round, cannon_spread_deg) ==
    [cls |-> cls, name |-> name, health |-> health, cannon_ammo |-> cannon_ammo,
     fire_rate |-> fire_rate, wingspan |-> wingspan,
     damage_per_round |-> damage_per_round,
     cannon_spread_rads |-> cannon_spread_deg]

\* src/src/scripts/jets.py
scripts_F16 == JetFighter("scripts.F16", "F16", 100 * 100, 3000, 80, 45, 5, 3)

scripts_F18 == JetFighter("scripts.F18", "F18", 100 * 100, 4000, 50, 50, 30, 6)

scripts_F22 == JetFighter("scripts.F22", "F22", 100 * 100, 2000, 60, 60, 80, 2)

\* src/src/jets.py
jets_F16 == JetFighter("jets.F16", "F16", 100 * 100, 100000000, 80, 45, 5, 4)

jets_F18 == JetFighter("jets.F18", "F18", 100 * 100, 100000000, 50, 50, 30, 6)

Fleet == {scripts_F16, scripts_F18, scripts_F22, jets_F16, jets_F18}

\* a shoot that forgets the floor
Mut_scripts_shoot_no_floor(jet, duration) ==
    LET left == jet.cannon_ammo - duration * jet.fire_rate
    IN  [jet |-> [jet EXCEPT !.cannon_ammo = left], ret |-> left]

\* a shoot that takes a negative duration for 0
Mut_scripts_shoot_no_replenish(jet, duration) ==
    LET n_rounds == IF duration < 0 THEN 0 ELSE duration * jet.fire_rate
        ammo == jet.cannon_ammo - n_rounds
        left == IF ammo < 0 THEN 0 ELSE ammo
    IN  [jet |-> [jet EXCEPT !.cannon_ammo = left], ret |-> left]

\* shoot of src/src/scripts/jets.py: the ammunition is floored at 0
scripts_shoot(jet, duration) ==
    LET n_rounds == duration * jet.fire_rate
        ammo == jet.cannon_ammo - n_rounds
        left == IF ammo < 0 THEN 0 ELSE ammo
    IN  [jet |-> [jet EXCEPT !.cannon_ammo = left], ret |-> left]

\* shoot of src/src/jets.py: no floor
jets_shoot(jet, duration) ==
    LET n_rounds == duration * jet.fire_rate
        left == jet.cannon_ammo - n_rounds
    IN  [jet |-> [jet EXCEPT !.cannon_ammo = left], ret |-> left]

\* a shoot that also stores the rounds fired as the fire rate
Mut_shoot_overwrites_fire_rate(jet, duration) ==
    LET r == IF jet.cls \in ScriptsClasses THEN scripts_shoot(jet, duration)
             ELSE jets_shoot(jet, duration)
    IN  [r EXCEPT !.jet.fire_rate = duration * jet.fire_rate]

\* jet.shoot(duration), dispatched on the object's class
shoot(jet, duration) ==
    IF jet.cls \in ScriptsClasses THEN scripts_shoot(jet, duration)
    ELSE jets_shoot(jet, duration)

\* a deduct_health that forgets the floor
Mut_deduct_health_no_floor(jet, damage) ==
    LET h == jet.health - damage
    IN  [jet |-> [jet EXCEPT !.health = h], ret |-> h]

\* deduct_health: the same body in every class of both modules
deduct_health(jet, damage) ==
    LET h0 == jet.health - damage
        h == IF h0 < 0 THEN 0 ELSE h0
    IN  [jet |-> [jet EXCEPT !.health = h], ret |-> h]

\* an add_health capped at the full health
Mut_add_health_capped(jet, health_points) ==
    LET h0 == jet.health + health_points
        h == IF h0 > 100 * 100 THEN 100 * 100 ELSE h0
    IN  [jet |-> [jet EXCEPT !.health = h], ret |-> h]

\* add_health: the same body in every class of both modules
add_health(jet, health_points) ==
    LET h == jet.health + health_points
    IN  [jet |-> [jet EXCEPT !.health = h], ret |-> h]

\* obtain_health
obtain_health(jet) == jet.health

\* calculate_cross_sectional_area: (wingspan / 2) ** 2 * 3.141
calculate_cross_sectional_area(jet) ==
    (50 * jet.wingspan) * (50 * jet.wingspan)

\* a damage limited to the rounds the firer has left
Mut_calculate_damage_ammo_limited(jet, duration) ==
    LET n_rounds == duration * jet.fire_rate
        left == IF jet.cannon_ammo < 0 THEN 0 ELSE jet.cannon_ammo
    IN  (IF n_rounds <= left THEN n_rounds ELSE left) * jet.damage_per_round

\* calculate_damage: duration * fire_rate * damage_per_round
calculate_damage(jet, duration) ==
    duration * jet.fire_rate * jet.damage_per_round

---------------------------------------------------------------------------
(* utils.py: the hit-probability model. *)

\* math.tan of the spread angles in use, in hundredths (the angle in degrees)
tan100(deg) ==
    CASE deg = 0 -> 0
      [] deg = 2 -> 3
      [] deg = 3 -> 5
      [] deg = 4 -> 7
      [] deg = 6 -> 11
      [] deg = 10 -> 18

\* a spread that narrows with the distance
Mut_calculate_cannon_spread_area_narrowing(d, jet) ==
    LET spread_radius == tan100(jet.cannon_spread_rads) * (1000 - d)
    IN  spread_radius * spread_radius

\* _calculate_cannon_spread_area: (tan(spread) * d_12) ** 2 * 3.141
calculate_cannon_spread_area(d, jet) ==
    LET spread_radius == tan100(jet.cannon_spread_rads) * d
    IN  spread_radius * spread_radius

RECURSIVE GCD(_, _)
GCD(a, b) == IF b = 0 THEN a ELSE GCD(b, a % b)

One == <<1, 1>>

\* the value of a float division that raised: a quotient with no value
ZeroDivisionError == <<1, 0>>

\* no value yet (Python's None)
None == <<>>

NoAlt == [side |-> 0, deg |-> 0, d |-> 0, p |-> None]

\* float(a / b) of two areas: the quotient in lowest terms, an error for b = 0
float_div(a, b) ==
    IF b = 0 THEN ZeroDivisionError
    ELSE LET g == GCD(a, b) IN <<a \div g, b \div g>>

\* a ratio taken the wrong way round
Mut_hit_probability_inverted(spread_area, cross_sectional_area) ==
    IF spread_area <= cross_sectional_area THEN One
    ELSE float_div(spread_area, cross_sectional_area)

\* a strict comparison in place of <=
Mut_hit_probability_strict(spread_area, cross_sectional_area) ==
    IF spread_area < cross_sectional_area THEN One
    ELSE float_div(cross_sectional_area, spread_area)

\* the if/else of p_by_distance, the same for either side: 1.0 when the
\* firer's spread area is <= the target's area, else target area / spread area
hit_probability(spread_area, cross_sectional_area) ==
    IF spread_area <= cross_sectional_area THEN One
    ELSE float_div(cross_sectional_area, spread_area)

\* each side's spread compared against its own area
Mut_p_by_distance_own_area(fighter_1, fighter_2, d) ==
    <<hit_probability(calculate_cannon_spread_area(d, fighter_1),
                      calculate_cross_sectional_area(fighter_1)),
      hit_probability(calculate_cannon_spread_area(d, fighter_2),
                      calculate_cross_sectional_area(fighter_2))>>

\* the second probability taken from the first fighter's spread
Mut_p_by_distance_one_spread(fighter_1, fighter_2, d) ==
    <<hit_probability(calculate_cannon_spread_area(d, fighter_1),
                      calculate_cross_sectional_area(fighter_2)),
      hit_probability(calculate_cannon_spread_area(d, fighter_1),
                      calculate_cross_sectional_area(fighter_1))>>

\* p_by_distance(fighter1, fighter2, d_12) -> (p_1, p_2)
p_by_distance(fighter_1, fighter_2, d) ==
    LET fighter1_cannon_spread_area == calculate_cannon_spread_area(d, fighter_1)
        fighter2_cannon_spread_area == calculate_cannon_spread_area(d, fighter_2)
        fighter1_cross_sectional_area == calculate_cross_sectional_area(fighter_1)
        fighter2_cross_sectional_area == calculate_cross_sectional_area(fighter_2)
        p_1 == hit_probability(fighter1_cannon_spread_area, fighter2_cross_sectional_area)
        p_2 == hit_probability(fighter2_cannon_spread_area, fighter1_cross_sectional_area)
    IN  <<p_1, p_2>>

---------------------------------------------------------------------------
(* utils.py: hit sampling and the single exchange. *)

\* random.uniform(0, 1) yields k / DrawDen for some k in 0 .. DrawDen - 1
Draws == 0 .. (DrawDen - 1)

\* probability p >= the draw r / DrawDen
AtLeastDraw(p, r) == p[1] * DrawDen >= r * p[2]

\* a hit only when the probability exceeds the draw
Mut_hit_or_miss_strict(p_1, p_2, r_1, r_2) ==
    <<p_1[1] * DrawDen > r_1 * p_1[2], p_2[1] * DrawDen > r_2 * p_2[2]>>

\* a hit when the draw is at least the probability
Mut_hit_or_miss_reversed(p_1, p_2, r_1, r_2) ==
    <<r_1 * p_1[2] >= p_1[1] * DrawDen, r_2 * p_2[2] >= p_2[1] * DrawDen>>

\* hit_or_miss(p_1, p_2), r_1 and r_2 being its two random draws
hit_or_miss(p_1, p_2, r_1, r_2) ==
    <<AtLeastDraw(p_1, r_1), AtLeastDraw(p_2, r_2)>>

\* an attack that reports the health it took
Mut_attack_reports_drop(hit, firer, target, duration) ==
    IF hit
    THEN LET r == deduct_health(target, calculate_damage(firer, duration))
         IN  [damage |-> target.health - r.ret, target |-> r.jet,
              health_post_hit |-> r.ret]
    ELSE [damage |-> 0, target |-> target, health_post_hit |-> target.health]

\* damage applied whether or not the shot was flagged a hit
Mut_attack_ungated(hit, firer, target, duration) ==
    LET damage == calculate_damage(firer, duration)
        r == deduct_health(target, damage)
    IN  [damage |-> damage, target |-> r.jet, health_post_hit |-> r.ret]

\* one side's attack in exchange: on a hit the firer's damage for the
\* duration is deducted from the target; on a miss the damage is 0 and the
\* target's health is read as it is
attack(hit, firer, target, duration) ==
    IF hit
    THEN LET damage == calculate_damage(firer, duration)
             r == deduct_health(target, damage)
         IN  [damage |-> damage, target |-> r.jet, health_post_hit |-> r.ret]
    ELSE [damage |-> 0, target |-> target, health_post_hit |-> target.health]

\* an exchange that reports fighter1's health as read before fighter2's
\* attack was processed
Mut_exchange_stale_health(fighter_1, fighter_2, dist, duration, r_1, r_2) ==
    LET p == p_by_distance(fighter_1, fighter_2, dist)
        hit_bools == hit_or_miss(p[1], p[2], r_1, r_2)
        f1_shot == shoot(fighter_1, duration)
        f2_shot == shoot(fighter_2, duration)
        f1_attack == attack(hit_bools[1], f1_shot.jet, f2_shot.jet, duration)
        f2_attack == attack(hit_bools[2], f1_attack.target, f1_shot.jet, duration)
    IN  [fighter1 |-> f2_attack.target,
         fighter2 |-> f1_attack.target,
         p |-> p,
         ret |-> [fighter1 |-> <<f1_shot.ret, f1_shot.jet.health,
                                 hit_bools[1], f2_attack.damage>>,
                  fighter2 |-> <<f2_shot.ret, f1_attack.health_post_hit,
                                 hit_bools[2], f1_attack.damage>>]]

\* exchange(fighter1, fighter2, distance, duration), r_1 and r_2 being the
\* random draws of its hit_or_miss: the two fighters after the call, and
\* the dict it returns
exchange(fighter_1, fighter_2, dist, duration, r_1, r_2) ==
    LET p == p_by_distance(fighter_1, fighter_2, dist)
        hit_bools == hit_or_miss(p[1], p[2], r_1, r_2)
        f1_shot == shoot(fighter_1, duration)
        f2_shot == shoot(fighter_2, duration)
        f1_attack == attack(hit_bools[1], f1_shot.jet, f2_shot.jet, duration)
        f2_attack == attack(hit_bools[2], f1_attack.target, f1_shot.jet, duration)
    IN  [fighter1 |-> f2_attack.target,
         fighter2 |-> f1_attack.target,
         p |-> p,
         ret |-> [fighter1 |-> <<f1_shot.ret, f2_attack.health_post_hit,
                                 hit_bools[1], f2_attack.damage>>,
                  fighter2 |-> <<f2_shot.ret, f1_attack.health_post_hit,
                                 hit_bools[2], f1_attack.damage>>]]

---------------------------------------------------------------------------
(* The driving loops: dogfight of src/src/scripts/utils.py, main of        *)
(* src/src/main.py (the same loop on the fighters of src/src/jets.py) and   *)
(* main of src/main.py (an earlier loop with no exchange and no break).    *)

\* a range that includes its stop value
Mut_in_range_inclusive(d, step) ==
    IF step < 0 THEN d >= 0 ELSE step > 0 /\ d <= 0

\* a range that yields one value more
Mut_in_range_one_more(d, step) ==
    IF step < 0 THEN d > step ELSE step > 0 /\ d < step

\* for distance in range(start, 0, step): whether the value d is produced
in_range(d, step) ==
    IF step < 0 THEN d > 0 ELSE step > 0 /\ d < 0

\* duration = random.uniform(0, max_exchange_duration)
LoopDurations(max_exchange_duration) ==
    {0, max_exchange_duration \div 2, max_exchange_duration}

\* the draws of hit_or_miss in a loop: the smallest and the largest
LoopDraws == {0, DrawDen - 1}

\* checks that forget the ammunition
Mut_terminal_check_health_only(exchange_details) ==
    IF exchange_details.fighter1[2] <= 0 THEN "fighter1 destroyed"
    ELSE IF exchange_details.fighter2[2] <= 0 THEN "fighter2 destroyed"
    ELSE "none"

\* checks that look at fighter2 before fighter1
Mut_terminal_check_fighter2_first(exchange_details) ==
    IF exchange_details.fighter2[2] <= 0 THEN "fighter2 destroyed"
    ELSE IF exchange_details.fighter1[2] <= 0 THEN "fighter1 destroyed"
    ELSE IF exchange_details.fighter2[1] = 0 THEN "fighter2 out of ammo"
    ELSE IF exchange_details.fighter1[1] = 0 THEN "fighter1 out of ammo"
    ELSE "none"

\* the checks after the exchange, in the order of the code: the first that
\* matches logs its outcome and breaks
terminal_check(exchange_details) ==
    LET f1_ammo_left == exchange_details.fighter1[1]
        f1_health_post_hit == exchange_details.fighter1[2]
        f2_ammo_left == exchange_details.fighter2[1]
        f2_health_post_hit == exchange_details.fighter2[2]
    IN  IF f1_health_post_hit <= 0 THEN "fighter1 destroyed"
        ELSE IF f2_health_post_hit <= 0 THEN "fighter2 destroyed"
        ELSE IF f1_ammo_left = 0 THEN "fighter1 out of ammo"
        ELSE IF f2_ammo_left = 0 THEN "fighter2 out of ammo"
        ELSE "none"

\* p_by_distance of src/utils.py
root_p_by_distance(attacker, defender, d_ab) ==
    LET attacker_cannon_spread_area == calculate_cannon_spread_area(d_ab, attacker)
        defender_cannon_spread_area == calculate_cannon_spread_area(d_ab, defender)
        p_a == hit_probability(attacker_cannon_spread_area,
                               calculate_cross_sectional_area(defender))
        p_d == hit_probability(defender_cannon_spread_area,
                               calculate_cross_sectional_area(attacker))
    IN  <<p_a, p_d>>

\* the two module-level fighters of src/main.py; the jets module it imports
\* is not among the sources, so they carry the parameters of the F16 and the
\* F18 of src/src/jets.py
root_F16 == [jets_F16 EXCEPT !.cls = "root.F16"]

root_F18 == [jets_F18 EXCEPT !.cls = "root.F18"]

\* the body of the loop of src/main.py: the F18's hit damages the F16, the
\* F16's hit damages the F18; no ammunition is spent
root_round(f16, f18, dist, eng_duration_secs, r_attacker, r_defender) ==
    LET p == root_p_by_distance(f16, f18, dist)
        f18_hit == AtLeastDraw(p[2], r_defender)
        f16_hit == AtLeastDraw(p[1], r_attacker)
        f16_damage_incurred == f18.damage_per_round * f18.fire_rate * eng_duration_secs
        f18_damage_incurred == f16.damage_per_round * f16.fire_rate * eng_duration_secs
    IN  [fighter1 |-> IF f18_hit THEN deduct_health(f16, f16_damage_incurred).jet ELSE f16,
         fighter2 |-> IF f16_hit THEN deduct_health(f18, f18_damage_incurred).jet ELSE f18,
         p |-> p,
         hits |-> <<f16_hit, f18_hit>>]

\* dogfight(attacker, defender) of src/utils.py, one round at a random
\* distance: a side that is hit loses its own fire_rate * eng_duration_secs
\* health points, subtracted from the attribute directly
root_dogfight(attacker, defender, distance_rand, eng_duration_secs, r_attacker, r_defender) ==
    LET p == root_p_by_distance(attacker, defender, distance_rand)
        defender_hit == AtLeastDraw(p[2], r_defender)
        attacker_hit == AtLeastDraw(p[1], r_attacker)
    IN  [fighter1 |-> IF defender_hit
                      THEN [attacker EXCEPT !.health =
                               @ - 100 * attacker.fire_rate * eng_duration_secs]
                      ELSE attacker,
         fighter2 |-> IF attacker_hit
                      THEN [defender EXCEPT !.health =
                               @ - 100 * defender.fire_rate * eng_duration_secs]
                      ELSE defender,
         p |-> p,
         hits |-> <<attacker_hit, defender_hit>>]

\* distance_rand = random.uniform(0, 1000)
RandDistances == {0, 500, 1000}

\* dogfight(fighter1, fighter2, logger, start_distance, step_size,
\* max_exchange_duration): its defaults with an F16 against an F18 and with
\* two F18s, and a short approach
DogfightConfigs ==
    {[driver |-> "scripts.dogfight", fighter1 |-> a[1], fighter2 |-> a[2],
      start_distance |-> a[3], step_size |-> a[4], max_exchange_duration |-> 10]
        : a \in {<<scripts_F16, scripts_F18, 1000, -50>>,
                  <<scripts_F18, scripts_F18, 1000, -50>>,
                  <<scripts_F16, scripts_F18, 100, -25>>}}

\* main() of src/src/main.py
MainConfig ==
    [driver |-> "src.main", fighter1 |-> jets_F16, fighter2 |-> jets_F18,
     start_distance |-> 700, step_size |-> -50, max_exchange_duration |-> 10]

\* main() of src/main.py
RootMainConfig ==
    [driver |-> "root.main", fighter1 |-> root_F16, fighter2 |-> root_F18,
     start_distance |-> 100, step_size |-> -25, max_exchange_duration |-> 10]

\* one call of dogfight of src/utils.py on two fresh fighters: a single
\* round, its distance drawn up to start_distance
RootDogfightConfig ==
    [driver |-> "root.dogfight", fighter1 |-> root_F16, fighter2 |-> root_F18,
     start_distance |-> 1000, step_size |-> -1000, max_exchange_duration |-> 10]

---------------------------------------------------------------------------
(* SpecFighter: a client calling the methods of one fighter object. *)

Durations == {0, 1, 2, 10, 25, 38, HugeDuration}

NegativeDurations == {0 - 1, 0 - 10, 0 - HugeDuration}

Damages == {0, 1, 1500, 4000, 100 * 100, HugeDamage}

NegativeDamages == {0 - 1, 0 - 2500}

HealthPoints == {0, 1, 2500, 100 * 100}

\* the durations handed to calculate_damage on its own
DamageDurations == {0, 1, 10, 38}

NoCall == [op |-> "none"]

\* no driving loop runs
NoLoop ==
    /\ cfg = [driver |-> "none"]
    /\ pc = "idle"
    /\ distance = 0
    /\ outcome = "none"
    /\ n_exchanges = 0
    /\ fired = <<0, 0>>
    /\ forced = TRUE

InitFighter ==
    /\ fighter1 \in Fleet
    /\ fighter2 = scripts_F18
    /\ pre = <<fighter1, fighter2>>
    /\ call = NoCall
    /\ n_calls = 0
    /\ d_12 = 0 /\ p_12 = None /\ p_21 = None /\ p_alt = NoAlt
    /\ NoLoop

Shoot ==
    /\ n_calls < MaxCalls
    /\ \E duration \in Durations \cup NegativeDurations :
         LET r == shoot(fighter1, duration)
         IN  /\ fighter1' = r.jet
             /\ call' = [op |-> "shoot", duration |-> duration, ret |-> r.ret]
    /\ pre' = <<fighter1, fighter2>>
    /\ n_calls' = n_calls + 1
    /\ UNCHANGED <<fighter2, pvars, lvars>>

DeductHealth ==
    /\ n_calls < MaxCalls
    /\ \E damage \in Damages \cup NegativeDamages :
         LET r == deduct_health(fighter1, damage)
         IN  /\ fighter1' = r.jet
             /\ call' = [op |-> "deduct_health", damage |-> damage, ret |-> r.ret]
    /\ pre' = <<fighter1, fighter2>>
    /\ n_calls' = n_calls + 1
    /\ UNCHANGED <<fighter2, pvars, lvars>>

AddHealth ==
    /\ n_calls < MaxCalls
    /\ \E health_points \in HealthPoints :
         LET r == add_health(fighter1, health_points)
         IN  /\ fighter1' = r.jet
             /\ call' = [op |-> "add_health", health_points |-> health_points,
                         ret |-> r.ret]
    /\ pre' = <<fighter1, fighter2>>
    /\ n_calls' = n_calls + 1
    /\ UNCHANGED <<fighter2, pvars, lvars>>

ObtainHealth ==
    /\ n_calls < MaxCalls
    /\ call' = [op |-> "obtain_health", ret |-> obtain_health(fighter1)]
    /\ pre' = <<fighter1, fighter2>>
    /\ n_calls' = n_calls + 1
    /\ UNCHANGED <<fighter1, fighter2, pvars, lvars>>

CalculateCrossSectionalArea ==
    /\ n_calls < MaxCalls
    /\ call' = [op |-> "calculate_cross_sectional_area",
                ret |-> calculate_cross_sectional_area(fighter1)]
    /\ pre' = <<fighter1, fighter2>>
    /\ n_calls' = n_calls + 1
    /\ UNCHANGED <<fighter1, fighter2, pvars, lvars>>

CalculateDamage ==
    /\ n_calls < MaxCalls
    /\ \E duration \in DamageDurations :
         call' = [op |-> "calculate_damage", duration |-> duration,
                  ret |-> calculate_damage(fighter1, duration)]
    /\ pre' = <<fighter1, fighter2>>
    /\ n_calls' = n_calls + 1
    /\ UNCHANGED <<fighter1, fighter2, pvars, lvars>>

NextFighter ==
    \/ Shoot
    \/ DeductHealth
    \/ AddHealth
    \/ ObtainHealth
    \/ CalculateCrossSectionalArea
    \/ CalculateDamage

SpecFighter == InitFighter /\ [][NextFighter]_vars

---------------------------------------------------------------------------
(* SpecProb: p_by_distance applied to fighters and distances drawn from    *)
(* bounded sets.                                                           *)

Wingspans == {0, 1, 45, 50, 60}

SpreadDegs == {0, 2, 3, 4, 6, 10}

ProbDistances == {0, 1, 25, 100, 225, 450, 500, 700, 1000}

\* a fighter object with the given geometry
Airframe(wingspan, deg) ==
    [scripts_F16 EXCEPT !.wingspan = wingspan, !.cannon_spread_rads = deg]

Airframes == {Airframe(w, s) : w \in Wingspans, s \in SpreadDegs}

InitProb ==
    /\ fighter1 \in Airframes
    /\ fighter2 \in Airframes
    /\ d_12 \in ProbDistances
    /\ p_12 = None /\ p_21 = None /\ p_alt = NoAlt
    /\ pre = <<fighter1, fighter2>>
    /\ call = NoCall
    /\ n_calls = 0
    /\ NoLoop

PByDistance ==
    /\ p_12 = None
    /\ p_12' = p_by_distance(fighter1, fighter2, d_12)
    /\ UNCHANGED <<fighter1, fighter2, pre, call, n_calls, d_12, p_21, p_alt, lvars>>

PByDistanceSwapped ==
    /\ p_21 = None
    /\ p_21' = p_by_distance(fighter2, fighter1, d_12)
    /\ UNCHANGED <<fighter1, fighter2, pre, call, n_calls, d_12, p_12, p_alt, lvars>>

\* the same call with the spread angle of one side replaced
PByDistanceOtherSpread ==
    /\ p_alt = NoAlt
    /\ \E side \in {1, 2}, deg \in SpreadDegs :
         LET f1 == IF side = 1 THEN [fighter1 EXCEPT !.cannon_spread_rads = deg]
                   ELSE fighter1
             f2 == IF side = 2 THEN [fighter2 EXCEPT !.cannon_spread_rads = deg]
                   ELSE fighter2
         IN  p_alt' = [side |-> side, deg |-> deg, d |-> d_12,
                       p |-> p_by_distance(f1, f2, d_12)]
    /\ UNCHANGED <<fighter1, fighter2, pre, call, n_calls, d_12, p_12, p_21, lvars>>

\* the same call on the same fighters at another distance
PByDistanceOtherDistance ==
    /\ p_alt = NoAlt
    /\ \E d \in ProbDistances \ {d_12} :
         p_alt' = [side |-> 0, deg |-> 0, d |-> d,
                   p |-> p_by_distance(fighter1, fighter2, d)]
    /\ UNCHANGED <<fighter1, fighter2, pre, call, n_calls, d_12, p_12, p_21, lvars>>

NextProb ==
    \/ PByDistance
    \/ PByDistanceSwapped
    \/ PByDistanceOtherSpread
    \/ PByDistanceOtherDistance

SpecProb == InitProb /\ [][NextProb]_vars

---------------------------------------------------------------------------
(* SpecExchange: a client (the HTTP endpoint, a test) calling exchange on   *)
(* one pair of fighters, with distances and durations of its choice.       *)

ExchangePairs == {<<scripts_F16, scripts_F18>>, <<jets_F16, jets_F18>>}

ExchangeDistances == {0, 50, 500, 1000}

ExchangeDurations == {0, 10, 40, LongDuration}

InitExchange ==
    /\ \E pair \in ExchangePairs : fighter1 = pair[1] /\ fighter2 = pair[2]
    /\ pre = <<fighter1, fighter2>>
    /\ call = NoCall
    /\ n_calls = 0
    /\ d_12 = 0 /\ p_12 = None /\ p_21 = None /\ p_alt = NoAlt
    /\ NoLoop

Exchange ==
    /\ n_calls < MaxExchanges
    /\ \E dist \in ExchangeDistances, duration \in ExchangeDurations,
          r_1 \in Draws, r_2 \in Draws :
         \E x \in {exchange(fighter1, fighter2, dist, duration, r_1, r_2)} :
             /\ fighter1' = x.fighter1
             /\ fighter2' = x.fighter2
             /\ call' = [op |-> "exchange", distance |-> dist, duration |-> duration,
                         draws |-> <<r_1, r_2>>, p |-> x.p, ret |-> x.ret]
    /\ pre' = <<fighter1, fighter2>>
    /\ n_calls' = n_calls + 1
    /\ UNCHANGED <<pvars, lvars>>

NextExchange == Exchange

SpecExchange == InitExchange /\ [][NextExchange]_vars

---------------------------------------------------------------------------
(* SpecEndpoint: requests served by GET /dogfight/exchange/{distance}/     *)
(* {duration}.  fighter1 and fighter2 are the objects built by the last    *)
(* request, pre those of the request before it, call the response.         *)

\* the path parameters are ints of either sign
PathDistances == {0 - 500, 0, 500, 1000}

PathDurations == {0 - 5, 0, 10, 40}

InitEndpoint ==
    /\ fighter1 = scripts_F16
    /\ fighter2 = scripts_F18
    /\ pre = <<fighter1, fighter2>>
    /\ call = NoCall
    /\ n_calls = 0
    /\ d_12 = 0 /\ p_12 = None /\ p_21 = None /\ p_alt = NoAlt
    /\ NoLoop

\* a handler that keeps its two fighters from one request to the next
Mut_ExchangeEndpoint_kept_fighters ==
    /\ n_calls < MaxRequests
    /\ \E dist \in PathDistances, duration \in PathDurations,
          r_1 \in Draws, r_2 \in Draws :
         \E x \in {exchange(fighter1, fighter2, dist, duration, r_1, r_2)} :
             /\ fighter1' = x.fighter1
             /\ fighter2' = x.fighter2
             /\ call' = [op |-> "exchange_endpoint", distance |-> dist,
                         duration |-> duration, draws |-> <<r_1, r_2>>,
                         p |-> x.p, ret |-> x.ret]
    /\ pre' = <<fighter1, fighter2>>
    /\ n_calls' = n_calls + 1
    /\ UNCHANGED <<pvars, lvars>>

\* exchange_endpoint(distance, duration): fighter1 = F16(), fighter2 = F18(),
\* one exchange, its record returned
ExchangeEndpoint ==
    /\ n_calls < MaxRequests
    /\ \E dist \in PathDistances, duration \in PathDurations,
          r_1 \in Draws, r_2 \in Draws :
         \E x \in {exchange(scripts_F16, scripts_F18, dist, duration, r_1, r_2)} :
             /\ fighter1' = x.fighter1
             /\ fighter2' = x.fighter2
             /\ call' = [op |-> "exchange_endpoint", distance |-> dist,
                         duration |-> duration, draws |-> <<r_1, r_2>>,
                         p |-> x.p, ret |-> x.ret]
    /\ pre' = <<fighter1, fighter2>>
    /\ n_calls' = n_calls + 1
    /\ UNCHANGED <<pvars, lvars>>

NextEndpoint == ExchangeEndpoint

SpecEndpoint == InitEndpoint /\ [][NextEndpoint]_vars

---------------------------------------------------------------------------
(* SpecLoop: one run of a driving loop. *)

LoopConfigs == DogfightConfigs \cup {MainConfig, RootMainConfig, RootDogfightConfig}

\* the state in which a loop of one of the given configurations starts
LoopStart(configs) ==
    /\ cfg \in configs
    /\ fighter1 = cfg.fighter1
    /\ fighter2 = cfg.fighter2
    /\ pre = <<fighter1, fighter2>>
    /\ call = NoCall
    /\ n_calls = 0
    /\ d_12 = 0 /\ p_12 = None /\ p_21 = None /\ p_alt = NoAlt
    /\ distance = cfg.start_distance
    /\ pc = IF in_range(cfg.start_distance, cfg.step_size) THEN "loop" ELSE "done"
    /\ outcome = "none"
    /\ n_exchanges = 0
    /\ fired = <<0, 0>>
    /\ forced = TRUE

InitLoop == LoopStart(LoopConfigs)

\* the loop goes on to the next distance, or is over
Advance(broke) ==
    IF broke
    THEN pc' = "done" /\ distance' = distance
    ELSE /\ distance' = distance + cfg.step_size
         /\ pc' = IF in_range(distance + cfg.step_size, cfg.step_size)
                  THEN "loop" ELSE "done"

\* one iteration of the loop of dogfight, or of main of src/src/main.py:
\* a random duration, the exchange, the terminal checks
LoopRound(driver) ==
    /\ pc = "loop"
    /\ cfg.driver = driver
    /\ \E duration \in LoopDurations(cfg.max_exchange_duration),
          r_1 \in LoopDraws, r_2 \in LoopDraws :
         \E x \in {exchange(fighter1, fighter2, distance, duration, r_1, r_2)} :
           \E logged \in {terminal_check(x.ret)} :
             /\ fighter1' = x.fighter1
             /\ fighter2' = x.fighter2
             /\ call' = [op |-> "exchange", distance |-> distance,
                         duration |-> duration, draws |-> <<r_1, r_2>>,
                         p |-> x.p, ret |-> x.ret]
             /\ outcome' = logged
             /\ Advance(logged /= "none")
             /\ fired' = <<fired[1] + duration * fighter1.fire_rate,
                           fired[2] + duration * fighter2.fire_rate>>
             /\ forced' = (forced /\ x.p = <<One, One>> /\ r_1 = 0 /\ r_2 = 0)
    /\ pre' = <<fighter1, fighter2>>
    /\ n_exchanges' = n_exchanges + 1
    /\ UNCHANGED <<n_calls, pvars, cfg>>

DogfightRound == LoopRound("scripts.dogfight")

MainRound == LoopRound("src.main")

\* one iteration of the loop of main of src/main.py
RootMainRound ==
    /\ pc = "loop"
    /\ cfg.driver = "root.main"
    /\ \E eng_duration_secs \in LoopDurations(cfg.max_exchange_duration),
          r_attacker \in LoopDraws, r_defender \in LoopDraws :
         \E x \in {root_round(fighter1, fighter2, distance, eng_duration_secs,
                               r_attacker, r_defender)} :
             /\ fighter1' = x.fighter1
             /\ fighter2' = x.fighter2
             /\ call' = [op |-> "round", distance |-> distance,
                         duration |-> eng_duration_secs,
                         draws |-> <<r_attacker, r_defender>>,
                         p |-> x.p, hits |-> x.hits]
             /\ forced' = (forced /\ x.p = <<One, One>>
                                  /\ r_attacker = 0 /\ r_defender = 0)
    /\ Advance(FALSE)
    /\ pre' = <<fighter1, fighter2>>
    /\ n_exchanges' = n_exchanges + 1
    /\ UNCHANGED <<n_calls, pvars, cfg, outcome, fired>>

\* the one round of dogfight of src/utils.py
RootDogfight ==
    /\ pc = "loop"
    /\ cfg.driver = "root.dogfight"
    /\ \E distance_rand \in RandDistances,
          eng_duration_secs \in LoopDurations(cfg.max_exchange_duration),
          r_attacker \in LoopDraws, r_defender \in LoopDraws :
         \E x \in {root_dogfight(fighter1, fighter2, distance_rand, eng_duration_secs,
                                 r_attacker, r_defender)} :
             /\ fighter1' = x.fighter1
             /\ fighter2' = x.fighter2
             /\ distance' = distance_rand
             /\ call' = [op |-> "round", distance |-> distance_rand,
                         duration |-> eng_duration_secs,
                         draws |-> <<r_attacker, r_defender>>,
                         p |-> x.p, hits |-> x.hits]
             /\ forced' = (forced /\ x.p = <<One, One>>
                                  /\ r_attacker = 0 /\ r_defender = 0)
    /\ pc' = "done"
    /\ pre' = <<fighter1, fighter2>>
    /\ n_exchanges' = n_exchanges + 1
    /\ UNCHANGED <<n_calls, pvars, cfg, outcome, fired>>

NextLoop == DogfightRound \/ MainRound \/ RootMainRound \/ RootDogfight

SpecLoop == InitLoop /\ [][NextLoop]_vars

---------------------------------------------------------------------------
(* SpecDogfightCall: dogfight called with a start distance and a step of   *)
(* the caller's choice, next to the runs of SpecLoop.  A loop that can run *)
(* a round does run it: the program is sequential, nothing but the loop   *)
(* itself is scheduled, and an exchange and its sleep are finite.          *)

\* dogfight with start_distance and step_size of either sign
CallerConfigs ==
    {[driver |-> "scripts.dogfight", fighter1 |-> scripts_F16, fighter2 |-> scripts_F18,
      start_distance |-> a[1], step_size |-> a[2], max_exchange_duration |-> 10]
        : a \in {<<0, 0 - 50>>, <<0 - 100, 0 - 50>>, <<75, 0 - 50>>,
                  <<1000, 50>>, <<0, 50>>, <<0 - 100, 50>>}}

InitDogfightCall == LoopStart(LoopConfigs \cup CallerConfigs)

\* the for statement runs its body for the next value of the range: every
\* step of NextLoop is such a step, and one is possible exactly when the
\* range has a value left
Iteration == pc = "loop" /\ n_exchanges' = n_exchanges + 1

SpecDogfightCall ==
    InitDogfightCall /\ [][NextLoop]_vars /\ WF_n_exchanges(Iteration)

---------------------------------------------------------------------------
(* Claims about single fighter operations. *)

Max(a, b) == IF a >= b THEN a ELSE b

\* C1: after any sequence of shoot calls with non-negative durations the
\* ammunition is >= 0 and shoot returned the stored ammunition.
C1_AmmoNeverNegative ==
    /\ fighter1.cannon_ammo >= 0
    /\ call.op = "shoot" => call.ret = fighter1.cannon_ammo

\* C2: deduct_health(damage), damage >= 0, leaves health = max(0, old health
\* - damage), never below 0, and returns the new health.
C2_DeductHealthClamps ==
    call.op = "deduct_health" =>
        /\ fighter1.health = Max(0, pre[1].health - call.damage)
        /\ fighter1.health >= 0
        /\ call.ret = fighter1.health

\* a deduction larger than the health left has been floored
C2_Witness ==
    /\ call.op = "deduct_health"
    /\ call.damage > pre[1].health
    /\ pre[1].health > 0
    /\ fighter1.health = 0

\* C17: shoot(duration) with a negative duration raises no error and
\* increases cannon_ammo by fire rate x |duration| (the ammunition is
\* replenished, possibly above its starting value) and returns it, while the
\* floored shoot of src/src/scripts/jets.py still never leaves ammo below 0.
C17_NegativeDurationReplenishes ==
    /\ (call.op = "shoot" /\ call.duration < 0) =>
           /\ fighter1.cannon_ammo =
                  pre[1].cannon_ammo + pre[1].fire_rate * (0 - call.duration)
           /\ fighter1.cannon_ammo > pre[1].cannon_ammo
           /\ call.ret = fighter1.cannon_ammo
    /\ fighter1.cls \in ScriptsClasses => fighter1.cannon_ammo >= 0

\* an F16 that had fired all its rounds was replenished above the 3000 it
\* started with
C17_Witness ==
    /\ call.op = "shoot"
    /\ call.duration < 0
    /\ fighter1.cls = "scripts.F16"
    /\ pre[1].cannon_ammo = 0
    /\ fighter1.cannon_ammo > 3000
    /\ call.ret = fighter1.cannon_ammo

\* the operations of a fighter other than add_health, called with a
\* non-negative argument
NonNegativeOtherCall ==
    \/ call.op = "shoot" /\ call.duration >= 0
    \/ call.op = "deduct_health" /\ call.damage >= 0
    \/ call.op = "calculate_damage" /\ call.duration >= 0
    \/ call.op \in {"obtain_health", "calculate_cross_sectional_area"}

\* C18: add_health(amount) adds amount to health without any upper clamp and
\* returns the new health, so health can exceed 100 after a heal; no other
\* fighter operation, called with a non-negative argument, raises health.
C18_AddHealthUnclamped ==
    /\ call.op = "add_health" =>
           /\ fighter1.health = pre[1].health + call.health_points
           /\ call.ret = fighter1.health
    /\ NonNegativeOtherCall => fighter1.health <= pre[1].health

\* a heal of a fighter at 100 left it above 100
C18_Witness ==
    /\ call.op = "add_health"
    /\ call.health_points > 0
    /\ pre[1].health = 100 * 100
    /\ fighter1.health > 100 * 100
    /\ call.ret = fighter1.health

---------------------------------------------------------------------------
(* Claims about p_by_distance. *)

IsProbability(p) ==
    /\ p /= ZeroDivisionError
    /\ p[2] > 0
    /\ 0 <= p[1]
    /\ p[1] <= p[2]

\* C7: for fighters with wingspan >= 0 and every distance d >= 0 both
\* probabilities returned by p_by_distance lie in [0, 1].
C7_ProbabilityInUnitInterval ==
    p_12 /= None => IsProbability(p_12[1]) /\ IsProbability(p_12[2])

\* a probability strictly between 0 and 1, and one that is 0, were returned
C7_Witness ==
    /\ p_12 /= None
    /\ p_12[1] /= ZeroDivisionError /\ p_12[2] /= ZeroDivisionError
    /\ 0 < p_12[1][1] /\ p_12[1][1] < p_12[1][2]
    /\ p_12[2][1] = 0

\* C8: at distance 0 p_by_distance returns exactly 1.0 for both sides for
\* any two fighters with wingspan >= 0; no division by the zero spread area
\* is evaluated.
C8_DistanceZeroIsCertainHit ==
    (p_12 /= None /\ d_12 = 0) => p_12 = <<One, One>>

\* distance 0 against a target of wingspan 0: both areas are 0
C8_Witness ==
    /\ p_12 /= None
    /\ d_12 = 0
    /\ fighter2.wingspan = 0
    /\ fighter1.cannon_spread_rads > 0
    /\ p_12 = <<One, One>>

\* p is the probability of a firer with this spread area against a target
\* with this area: 1.0, or the quotient target area / spread area
IsHitProbability(p, spread_area, target_area) ==
    IF spread_area <= target_area THEN p = One
    ELSE /\ p /= ZeroDivisionError
         /\ p /= One
         /\ p[2] > 0
         /\ spread_area % p[2] = 0
         /\ (spread_area \div p[2]) * p[1] = target_area

\* C9: the hit probability of firer F against target T at distance d is 1.0
\* when F's spread area at d is <= T's cross-sectional area, and otherwise
\* T's cross-sectional area divided by F's spread area.
C9_FirerSpreadAgainstTargetArea ==
    p_12 /= None =>
        /\ IsHitProbability(p_12[1], tan100(fighter1.cannon_spread_rads) ^ 2 * d_12 ^ 2,
                            2500 * fighter2.wingspan ^ 2)
        /\ IsHitProbability(p_12[2], tan100(fighter2.cannon_spread_rads) ^ 2 * d_12 ^ 2,
                            2500 * fighter1.wingspan ^ 2)
        /\ root_p_by_distance(fighter1, fighter2, d_12) = p_12

\* the two fighters differ in size, one side is certain to hit and the
\* other is not
C9_Witness ==
    /\ p_12 /= None
    /\ fighter1.wingspan /= fighter2.wingspan
    /\ p_12[1] = One
    /\ p_12[2] /= One
    /\ p_12[2] /= ZeroDivisionError
    /\ p_12[2][1] > 0

\* C10: p_by_distance(A, B, d) = (p, q) if and only if p_by_distance(B, A, d)
\* = (q, p), and each side's probability does not depend on the other
\* side's spread angle.
C10_SymmetricUnderSwap ==
    /\ (p_12 /= None /\ p_21 /= None) =>
           /\ p_12[1] = p_21[2]
           /\ p_12[2] = p_21[1]
    /\ (p_12 /= None /\ p_alt /= NoAlt) =>
           /\ p_alt.side = 2 => p_alt.p[1] = p_12[1]
           /\ p_alt.side = 1 => p_alt.p[2] = p_12[2]

\* both orders were called on two different fighters with different
\* probabilities, and a changed spread angle changed that side's probability
C10_Witness ==
    /\ p_12 /= None /\ p_21 /= None /\ p_alt /= NoAlt
    /\ fighter1 /= fighter2
    /\ p_12[1] /= p_12[2]
    /\ p_alt.side = 2
    /\ p_alt.p[2] /= p_12[2]

\* the fraction p is smaller than the fraction q
FracLess(p, q) == p[1] * q[2] < q[1] * p[2]

\* p_near and p_far are the probabilities of one firer at a nearer and at a
\* farther distance: never higher farther away, strictly lower once below
\* 1.0, and never 0
NonIncreasingInDistance(p_near, p_far) ==
    /\ p_near /= ZeroDivisionError /\ p_far /= ZeroDivisionError
    /\ ~FracLess(p_near, p_far)
    /\ p_far /= One => FracLess(p_far, p_near)
    /\ p_near[1] > 0 /\ p_far[1] > 0

\* C22: for fixed fighters with positive wingspan and nonzero spread angle,
\* each side's hit probability is non-increasing in the distance over
\* d >= 0: exactly 1.0 at every distance where the spread area is <= the
\* target area, strictly below 1.0 and strictly decreasing beyond, and
\* always strictly positive.
C22_NonIncreasingInDistance ==
    (/\ p_12 /= None
     /\ fighter1.wingspan > 0 /\ fighter2.wingspan > 0
     /\ fighter1.cannon_spread_rads /= 0 /\ fighter2.cannon_spread_rads /= 0) =>
        /\ p_12[1] = One <=>
               tan100(fighter1.cannon_spread_rads) ^ 2 * d_12 ^ 2
                   <= 2500 * fighter2.wingspan ^ 2
        /\ p_12[2] = One <=>
               tan100(fighter2.cannon_spread_rads) ^ 2 * d_12 ^ 2
                   <= 2500 * fighter1.wingspan ^ 2
        /\ (p_alt /= NoAlt /\ p_alt.side = 0) =>
               \A i \in {1, 2} :
                   IF d_12 < p_alt.d
                   THEN NonIncreasingInDistance(p_12[i], p_alt.p[i])
                   ELSE NonIncreasingInDistance(p_alt.p[i], p_12[i])

\* at the farther distance fighter1's probability, already below 1.0, is
\* strictly lower, and fighter2's has dropped from 1.0 to below it
C22_Witness ==
    /\ p_12 /= None /\ p_alt /= NoAlt
    /\ p_alt.side = 0
    /\ fighter1.wingspan > 0 /\ fighter2.wingspan > 0
    /\ d_12 < p_alt.d
    /\ p_12[1] /= One
    /\ FracLess(p_alt.p[1], p_12[1])
    /\ p_12[2] = One
    /\ p_alt.p[2] /= One
    /\ p_alt.p[2][1] > 0

---------------------------------------------------------------------------
(* Claims about the single exchange. *)

\* C5: a single exchange calls shoot exactly once on each fighter: each
\* fighter's ammo after it is max(0, old ammo - fire rate x duration),
\* whatever the hit flags.
C5_AmmoDeductedOnce ==
    call.op = "exchange" =>
        /\ fighter1.cannon_ammo =
               Max(0, pre[1].cannon_ammo - pre[1].fire_rate * call.duration)
        /\ fighter2.cannon_ammo =
               Max(0, pre[2].cannon_ammo - pre[2].fire_rate * call.duration)

\* C6: in a single exchange a fighter's health changes only if its
\* opponent's hit flag is true; when the opponent misses, the fighter's
\* health is unchanged and the damage inflicted on it is reported as 0.
C6_HealthChangesOnlyOnHit ==
    call.op = "exchange" =>
        /\ ~call.ret.fighter2[3] =>
               /\ fighter1.health = pre[1].health
               /\ call.ret.fighter1[4] = 0
        /\ ~call.ret.fighter1[3] =>
               /\ fighter2.health = pre[2].health
               /\ call.ret.fighter2[4] = 0

\* fighter1 hit and fighter2 missed while firing for a positive duration:
\* fighter2 lost health, fighter1 did not
C6_Witness ==
    /\ call.op = "exchange"
    /\ call.duration > 0
    /\ call.ret.fighter1[3]
    /\ ~call.ret.fighter2[3]
    /\ fighter2.health < pre[2].health
    /\ fighter1.health = pre[1].health
    /\ call.ret.fighter1[4] = 0

\* the draw r / DrawDen is at most the probability p
DrawAtMost(r, p) == r * p[2] <= p[1] * DrawDen

\* some draw hits and some draw misses with probability p
CanHitAndMiss(p) ==
    /\ \E r \in Draws : DrawAtMost(r, p)
    /\ \E r \in Draws : ~DrawAtMost(r, p)

\* C11: in hit_or_miss each side's hit flag is true if and only if that
\* side's probability is >= that side's own random draw; the flags come from
\* separate draws, so whenever each side can both hit and miss, all four
\* combinations of flags are produced by some pair of draws; and a fighter
\* reduced to health 0 in a round still inflicts its damage in that round.
C11_HitIffProbabilityAtLeastDraw ==
    call.op = "exchange" =>
        /\ call.ret.fighter1[3] <=> DrawAtMost(call.draws[1], call.p[1])
        /\ call.ret.fighter2[3] <=> DrawAtMost(call.draws[2], call.p[2])
        /\ (CanHitAndMiss(call.p[1]) /\ CanHitAndMiss(call.p[2])) =>
               \A f1_hit \in BOOLEAN, f2_hit \in BOOLEAN :
                   \E r_1 \in Draws, r_2 \in Draws :
                       hit_or_miss(call.p[1], call.p[2], r_1, r_2) = <<f1_hit, f2_hit>>
        /\ (call.ret.fighter1[3] /\ call.ret.fighter2[3]) =>
               /\ fighter2.health =
                      Max(0, pre[2].health
                               - call.duration * pre[1].fire_rate * pre[1].damage_per_round)
               /\ fighter1.health =
                      Max(0, pre[1].health
                               - call.duration * pre[2].fire_rate * pre[2].damage_per_round)

\* fighter2 was alive, was hit first and brought to health 0, and its own
\* hit of the same round took health from fighter1; fighter1's flag was
\* decided by a positive draw equal to its probability
C11_Witness ==
    /\ call.op = "exchange"
    /\ call.duration > 0
    /\ call.ret.fighter1[3] /\ call.ret.fighter2[3]
    /\ call.draws[1] > 0
    /\ call.p[1][1] * DrawDen = call.draws[1] * call.p[1][2]
    /\ pre[2].health > 0
    /\ fighter2.health = 0
    /\ fighter1.health < pre[1].health

\* C14: the record returned by exchange reports, for each fighter, exactly
\* the ammo and the health stored on that fighter object once the whole
\* exchange has finished (damage applied by the other side later in the same
\* exchange included), together with that fighter's own hit flag.
C14_RecordReportsFinalState ==
    call.op = "exchange" =>
        /\ call.ret.fighter1[1] = fighter1.cannon_ammo
        /\ call.ret.fighter1[2] = fighter1.health
        /\ call.ret.fighter2[1] = fighter2.cannon_ammo
        /\ call.ret.fighter2[2] = fighter2.health
        /\ call.ret.fighter1[3] <=> DrawAtMost(call.draws[1], call.p[1])
        /\ call.ret.fighter2[3] <=> DrawAtMost(call.draws[2], call.p[2])

\* both sides hit: fighter1's health was lowered by the attack processed
\* last, and the record carries the lowered health and the spent ammo
C14_Witness ==
    /\ call.op = "exchange"
    /\ call.duration > 0
    /\ call.ret.fighter1[3] /\ call.ret.fighter2[3]
    /\ fighter1.health < pre[1].health
    /\ fighter2.health < pre[2].health
    /\ call.ret.fighter1[2] = fighter1.health
    /\ fighter1.cannon_ammo < pre[1].cannon_ammo
    /\ call.ret.fighter1[1] = fighter1.cannon_ammo

\* C16: calculate_damage(duration) equals duration x fire rate x damage per
\* round and depends only on the duration and the firer's static
\* parameters: it is the same in every state the fighter reaches, whatever
\* ammunition it has left and whether or not its shots hit, so in an
\* exchange a firer with 0 ammo (or fewer rounds than fire rate x duration)
\* still inflicts the full amount on a hit.
C16_DamageIgnoresAmmo ==
    /\ \A duration \in ExchangeDurations :
           /\ calculate_damage(fighter1, duration) =
                  duration * pre[1].fire_rate * pre[1].damage_per_round
           /\ calculate_damage(fighter2, duration) =
                  duration * pre[2].fire_rate * pre[2].damage_per_round
    /\ call.op = "exchange" =>
           /\ call.ret.fighter1[3] =>
                  /\ call.ret.fighter2[4] =
                         call.duration * pre[1].fire_rate * pre[1].damage_per_round
                  /\ fighter2.health = Max(0, pre[2].health - call.ret.fighter2[4])
           /\ call.ret.fighter2[3] =>
                  /\ call.ret.fighter1[4] =
                         call.duration * pre[2].fire_rate * pre[2].damage_per_round
                  /\ fighter1.health = Max(0, pre[1].health - call.ret.fighter1[4])

\* fighter1 entered the exchange with no ammunition, hit, and fighter2 lost
\* the full fire rate x duration x damage per round
C16_Witness ==
    /\ call.op = "exchange"
    /\ pre[1].cannon_ammo = 0
    /\ call.duration > 0
    /\ call.ret.fighter1[3]
    /\ call.ret.fighter2[4] = call.duration * 80 * 5
    /\ pre[2].health - fighter2.health = call.duration * 80 * 5

\* C15: each call of the HTTP exchange endpoint builds two fresh fighters
\* and runs exactly one exchange, so its result never depends on earlier
\* requests: in every response the ammo of each side is max(0, initial ammo
\* - fire rate x duration) and the health of each side is either 100 or
\* max(0, 100 - the opponent's damage for that duration).
C15_EndpointIndependentOfEarlierRequests ==
    call.op = "exchange_endpoint" =>
        /\ call.ret.fighter1[1] =
               Max(0, scripts_F16.cannon_ammo - scripts_F16.fire_rate * call.duration)
        /\ call.ret.fighter2[1] =
               Max(0, scripts_F18.cannon_ammo - scripts_F18.fire_rate * call.duration)
        /\ call.ret.fighter1[2] \in
               {100 * 100,
                Max(0, 100 * 100 - call.duration * scripts_F18.fire_rate
                                                 * scripts_F18.damage_per_round)}
        /\ call.ret.fighter2[2] \in
               {100 * 100,
                Max(0, 100 * 100 - call.duration * scripts_F16.fire_rate
                                                 * scripts_F16.damage_per_round)}

\* a second request, after one that left its F16 short of ammunition and
\* its F18 destroyed, reports the ammo and health of fresh fighters
C15_Witness ==
    /\ call.op = "exchange_endpoint"
    /\ n_calls = 2
    /\ pre[1].cannon_ammo = 0
    /\ pre[2].health = 0
    /\ call.duration = 10
    /\ call.ret.fighter1[1] = 2200
    /\ call.ret.fighter2[2] = 6000

Min(a, b) == IF a <= b THEN a ELSE b

\* C23 as claimed: the damage value reported in the exchange record for a
\* side equals the amount by which the damaged fighter's health actually
\* dropped in that exchange, also when the hit takes health to the floor
\* of 0.
C23_ReportedDamageIsHealthDrop ==
    call.op = "exchange" =>
        /\ call.ret.fighter1[4] = pre[1].health - fighter1.health
        /\ call.ret.fighter2[4] = pre[2].health - fighter2.health

\* C23 as amended: the damage value reported for a side is the firing
\* opponent's damage output for the duration on a hit and 0 on a miss, and
\* the damaged fighter's health drops by the smaller of that value and the
\* health it had; the two are equal whenever the reported damage does not
\* exceed that health, and the drop is the smaller one when the hit takes
\* health to the floor of 0.
C23_ReportedDamageIsDamageOutput ==
    call.op = "exchange" =>
        /\ call.ret.fighter1[4] =
               (IF call.ret.fighter2[3]
                THEN call.duration * pre[2].fire_rate * pre[2].damage_per_round ELSE 0)
        /\ call.ret.fighter2[4] =
               (IF call.ret.fighter1[3]
                THEN call.duration * pre[1].fire_rate * pre[1].damage_per_round ELSE 0)
        /\ pre[1].health - fighter1.health = Min(call.ret.fighter1[4], pre[1].health)
        /\ pre[2].health - fighter2.health = Min(call.ret.fighter2[4], pre[2].health)

\* fighter1 was hit for more than the health it had left: the record
\* reports the full damage output, the health dropped by less
C23_Witness ==
    /\ call.op = "exchange"
    /\ call.ret.fighter2[3]
    /\ pre[1].health > 0
    /\ fighter1.health = 0
    /\ call.ret.fighter1[4] > pre[1].health - fighter1.health

\* the firer's spread at the distance is no larger than the target's area
SpreadWithinTarget(firer, target, d) ==
    calculate_cannon_spread_area(d, firer) <= calculate_cross_sectional_area(target)

\* C25: whenever a side's hit probability is 1.0 that side's hit flag is
\* true for every random draw in [0, 1], the draw 1 included; hence in any
\* exchange at a distance where the firer's spread area is <= the target's
\* area (distance 0 in particular) the probability is 1.0, the firer hits
\* and the target receives the firer's damage for the duration.
C25_CertainHitAlwaysHits ==
    call.op = "exchange" =>
        /\ \A r_1 \in 0 .. DrawDen, r_2 \in 0 .. DrawDen :
              \E hit_bools \in {hit_or_miss(call.p[1], call.p[2], r_1, r_2)} :
                  /\ call.p[1] = One => hit_bools[1]
                  /\ call.p[2] = One => hit_bools[2]
        /\ (call.distance = 0 \/ SpreadWithinTarget(pre[1], pre[2], call.distance))
              => call.p[1] = One
        /\ (call.distance = 0 \/ SpreadWithinTarget(pre[2], pre[1], call.distance))
              => call.p[2] = One
        /\ call.p[1] = One =>
              /\ call.ret.fighter1[3]
              /\ call.ret.fighter2[4] = calculate_damage(pre[1], call.duration)
              /\ fighter2.health =
                     Max(0, pre[2].health - calculate_damage(pre[1], call.duration))
        /\ call.p[2] = One =>
              /\ call.ret.fighter2[3]
              /\ call.ret.fighter1[4] = calculate_damage(pre[2], call.duration)
              /\ fighter1.health =
                     Max(0, pre[1].health - calculate_damage(pre[2], call.duration))

\* an exchange at a positive distance where fighter1's spread fits within
\* fighter2 and fighter2's does not fit within fighter1: fighter1 hit on
\* the largest draw and fighter2 lost health
C25_Witness ==
    /\ call.op = "exchange"
    /\ call.distance > 0
    /\ call.p[1] = One /\ call.p[2] /= One
    /\ call.draws[1] = DrawDen - 1
    /\ call.duration > 0
    /\ call.ret.fighter1[3]
    /\ fighter2.health < pre[2].health

\* the attributes of a fighter other than health and cannon_ammo
StaticFields(jet) ==
    <<jet.cls, jet.name, jet.fire_rate, jet.wingspan, jet.damage_per_round,
      jet.cannon_spread_rads>>

\* C26: p_by_distance and calculate_damage mutate nothing, and exchange
\* changes only the health and the cannon_ammo of the two fighters passed
\* in: after any sequence of exchanges name, fire_rate, wingspan,
\* damage_per_round and cannon_spread_rads of both fighters are those they
\* were built with; each exchange leaves a fighter as it was but for the
\* health and ammo it reports, leaves the health of a fighter that was not
\* hit alone, and with duration 0 (no round fired, damage 0) leaves both
\* fighters exactly as they were, although the probabilities and, on a
\* hit, the damage were computed.
C26_ExchangeChangesOnlyHealthAndAmmo ==
    /\ \E pair \in ExchangePairs :
          /\ StaticFields(fighter1) = StaticFields(pair[1])
          /\ StaticFields(fighter2) = StaticFields(pair[2])
    /\ call.op = "exchange" =>
          /\ fighter1 = [pre[1] EXCEPT !.health = call.ret.fighter1[2],
                                       !.cannon_ammo = call.ret.fighter1[1]]
          /\ fighter2 = [pre[2] EXCEPT !.health = call.ret.fighter2[2],
                                       !.cannon_ammo = call.ret.fighter2[1]]
          /\ ~call.ret.fighter2[3] => fighter1.health = pre[1].health
          /\ ~call.ret.fighter1[3] => fighter2.health = pre[2].health
          /\ call.duration = 0 => (fighter1 = pre[1] /\ fighter2 = pre[2])

\* a second exchange in which both sides fired: the F18 lost health in both
\* exchanges, the F16 lost health, and both spent ammo in this one
C26_Witness ==
    /\ call.op = "exchange"
    /\ n_calls = 2
    /\ call.duration > 0
    /\ call.ret.fighter1[3]
    /\ pre[2].health < 100 * 100
    /\ fighter2.health < pre[2].health
    /\ fighter1.health < 100 * 100
    /\ fighter1.cannon_ammo < pre[1].cannon_ammo
    /\ fighter2.cannon_ammo < pre[2].cannon_ammo
    /\ StaticFields(fighter1) = StaticFields(scripts_F16)

---------------------------------------------------------------------------
(* Claims about the driving loops. *)

\* a fighter is destroyed, or has been asked to fire at least as many rounds
\* as it started with
TerminalCondition(health_1, health_2, fired_1, fired_2) ==
    \/ health_1 <= 0
    \/ health_2 <= 0
    \/ fired_1 >= cfg.fighter1.cannon_ammo
    \/ fired_2 >= cfg.fighter2.cannon_ammo

\* C3: in the driving loop (dogfight, main of src/src/main.py), after every
\* exchange: if either fighter's health is <= 0 or either fighter has
\* exhausted its ammunition, the simulation ends at that round, and no
\* exchange is executed after that.
C3_LoopEndsAtTerminalCondition ==
    cfg.driver \in {"scripts.dogfight", "src.main"} =>
        /\ (n_exchanges > 0
              /\ TerminalCondition(fighter1.health, fighter2.health, fired[1], fired[2]))
               => pc = "done"
        /\ call.op = "exchange" =>
               ~TerminalCondition(pre[1].health, pre[2].health,
                                  fired[1] - call.duration * pre[1].fire_rate,
                                  fired[2] - call.duration * pre[2].fire_rate)

\* the F16 was asked to fire more rounds than it had, nobody is destroyed,
\* and the loop is over although distances were left
C3_Witness ==
    /\ cfg.driver = "scripts.dogfight"
    /\ n_exchanges > 0
    /\ fired[1] > cfg.fighter1.cannon_ammo
    /\ fighter1.health > 0 /\ fighter2.health > 0
    /\ in_range(distance + cfg.step_size, cfg.step_size)
    /\ outcome = "fighter1 out of ammo"
    /\ pc = "done"

\* C12: across any run of a driving loop each fighter's health starts at
\* 100, never increases from one round to the next, and stays within
\* [0, 100] in every reachable state.
C12_HealthWithinBoundsAndNonIncreasing ==
    cfg.driver /= "none" =>
        /\ n_exchanges = 0 => (fighter1.health = 100 * 100 /\ fighter2.health = 100 * 100)
        /\ fighter1.health <= pre[1].health
        /\ fighter2.health <= pre[2].health
        /\ 0 <= fighter1.health /\ fighter1.health <= 100 * 100
        /\ 0 <= fighter2.health /\ fighter2.health <= 100 * 100

\* C13: when the loop (dogfight, main of src/src/main.py) runs through all
\* its distances without a terminal condition firing, the simulation ends
\* with no outcome declared: no fighter is destroyed or out of ammunition
\* and nothing was logged; and a loop that ended with nothing logged has run
\* through all its distances.
C13_ExhaustedLoopDeclaresNoOutcome ==
    (cfg.driver \in {"scripts.dogfight", "src.main"} /\ pc = "done") =>
        /\ distance <= 0 =>
               /\ outcome = "none"
               /\ fighter1.health > 0 /\ fighter2.health > 0
               /\ fighter1.cannon_ammo /= 0 /\ fighter2.cannon_ammo /= 0
               /\ call.distance + cfg.step_size <= 0
        /\ outcome = "none" => distance <= 0

\* dogfight went through its twenty distances while both fighters fired and
\* the F16 was hit, and ended with nothing declared
C13_Witness ==
    /\ cfg.driver = "scripts.dogfight"
    /\ cfg.start_distance = 1000
    /\ pc = "done"
    /\ distance <= 0
    /\ n_exchanges = 20
    /\ outcome = "none"
    /\ fired[1] > 0
    /\ fighter1.health < 100 * 100

\* C19: the terminal checks are evaluated in a fixed priority after each
\* exchange (fighter1 destroyed, fighter2 destroyed, fighter1 out of ammo,
\* fighter2 out of ammo) and the first match wins: a run declares at most
\* one outcome (the loop is over once one is declared), destruction takes
\* precedence over ammo exhaustion, and when both fighters reach health <= 0
\* in the same round only fighter1 is declared destroyed.
C19_FirstMatchingCheckWins ==
    (cfg.driver \in {"scripts.dogfight", "src.main"} /\ n_exchanges > 0) =>
        /\ fighter1.health <= 0 => outcome = "fighter1 destroyed"
        /\ (fighter1.health > 0 /\ fighter2.health <= 0) => outcome = "fighter2 destroyed"
        /\ (fighter1.health > 0 /\ fighter2.health > 0 /\ fighter1.cannon_ammo = 0)
               => outcome = "fighter1 out of ammo"
        /\ (fighter1.health > 0 /\ fighter2.health > 0 /\ fighter1.cannon_ammo /= 0
              /\ fighter2.cannon_ammo = 0)
               => outcome = "fighter2 out of ammo"
        /\ (fighter1.health > 0 /\ fighter2.health > 0 /\ fighter1.cannon_ammo /= 0
              /\ fighter2.cannon_ammo /= 0)
               => outcome = "none"
        /\ outcome /= "none" => pc = "done"

\* both fighters were alive, both reached health 0 in the same round, and
\* the run declared fighter1 destroyed
C19_Witness ==
    /\ cfg.driver = "scripts.dogfight"
    /\ pre[1].health > 0 /\ pre[2].health > 0
    /\ fighter1.health = 0 /\ fighter2.health = 0
    /\ outcome = "fighter1 destroyed"
    /\ pc = "done"

RoundHits ==
    IF call.op = "exchange" THEN <<call.ret.fighter1[3], call.ret.fighter2[3]>>
    ELSE call.hits

\* C21: in every variant of the round logic, the health deducted from a
\* fighter on a hit is computed from the firing opponent's parameters
\* (opponent's fire rate x opponent's damage per round x duration), never
\* from the damaged fighter's own, and is applied through the clamped
\* deduction, so health cannot go below 0.
C21_DamageFromOpponentParameters ==
    (cfg.driver /= "none" /\ n_exchanges > 0) =>
        /\ RoundHits[1] =>
               fighter2.health =
                   Max(0, pre[2].health
                            - call.duration * pre[1].fire_rate * pre[1].damage_per_round)
        /\ RoundHits[2] =>
               fighter1.health =
                   Max(0, pre[1].health
                            - call.duration * pre[2].fire_rate * pre[2].damage_per_round)
        /\ fighter1.health >= 0
        /\ fighter2.health >= 0

\* the least integer >= a / b, for b > 0
CeilDiv(a, b) == (a + b - 1) \div b

\* C24 as claimed (its bounds): for a positive start_distance and a negative
\* step the loop runs at most ceil(start_distance / |step|) exchanges (20
\* for 1000 / -50, 14 for 700 / -50), and for a start_distance <= 0 or a
\* positive step it runs no exchange at all and leaves both fighters
\* unchanged.
C24_NoExchangeForPositiveStep ==
    cfg.driver \in {"scripts.dogfight", "src.main"} =>
        /\ (cfg.start_distance > 0 /\ cfg.step_size < 0) =>
               n_exchanges <= CeilDiv(cfg.start_distance, 0 - cfg.step_size)
        /\ (cfg.start_distance <= 0 \/ cfg.step_size > 0) =>
               /\ n_exchanges = 0
               /\ fighter1 = cfg.fighter1 /\ fighter2 = cfg.fighter2

\* the exchanges the loop can run at most: those of range(start, 0, step)
RangeLength ==
    IF cfg.step_size < 0 /\ cfg.start_distance > 0
    THEN CeilDiv(cfg.start_distance, 0 - cfg.step_size)
    ELSE IF cfg.step_size > 0 /\ cfg.start_distance < 0
    THEN CeilDiv(0 - cfg.start_distance, cfg.step_size)
    ELSE 0

C24_Bounds ==
    cfg.driver \in {"scripts.dogfight", "src.main"} =>
        /\ n_exchanges <= RangeLength
        /\ (cfg.start_distance = 1000 /\ cfg.step_size = 0 - 50) => n_exchanges <= 20
        /\ (cfg.start_distance = 700 /\ cfg.step_size = 0 - 50) => n_exchanges <= 14
        /\ ((cfg.start_distance <= 0 /\ cfg.step_size < 0)
              \/ (cfg.start_distance >= 0 /\ cfg.step_size > 0)) =>
               /\ n_exchanges = 0
               /\ pc = "done"
               /\ fighter1 = cfg.fighter1 /\ fighter2 = cfg.fighter2

\* C24 as amended: the driving loop always terminates; it runs at most
\* ceil(start_distance / |step|) exchanges for a positive start_distance
\* and a negative step (20 for 1000 / -50, 14 for 700 / -50), at most
\* ceil(|start_distance| / step) exchanges, at negative distances, for a
\* negative start_distance and a positive step, and no exchange at all,
\* leaving both fighters unchanged, for a start_distance <= 0 with a
\* negative step or a start_distance >= 0 with a positive step.
C24_LoopTerminatesWithinRange ==
    /\ []C24_Bounds
    /\ <>(pc = "done")

\* a call with start_distance -100 and step 50 ran its two exchanges, the
\* second at distance -50, and changed the fighters
C24_Witness ==
    /\ cfg.driver = "scripts.dogfight"
    /\ cfg.start_distance = 0 - 100 /\ cfg.step_size = 50
    /\ n_exchanges = 2
    /\ call.distance = 0 - 50
    /\ fighter2.health < 100 * 100
    /\ pc = "done"

\* C4: with the probability forced to 1.0 and the draw to 0.0 for both sides
\* in every round, a loop from distance 100 in steps of 25 makes both sides
\* take damage in every round until one side's health is <= 0, and stops at
\* that round: no exchange is run after a fighter has reached health <= 0.
C4_ForcedLoopStopsAtFirstKill ==
    (cfg.driver /= "none" /\ cfg.start_distance = 100 /\ cfg.step_size = -25
       /\ forced /\ n_exchanges > 0) =>
        /\ RoundHits = <<TRUE, TRUE>>
        /\ fighter1.health =
               Max(0, pre[1].health
                        - call.duration * pre[2].fire_rate * pre[2].damage_per_round)
        /\ fighter2.health =
               Max(0, pre[2].health
                        - call.duration * pre[1].fire_rate * pre[1].damage_per_round)
        /\ pre[1].health > 0 /\ pre[2].health > 0
        /\ (fighter1.health <= 0 \/ fighter2.health <= 0) => pc = "done"

=============================================================================
